---------------------------- MODULE Spec2Model ----------------------------
(***************************************************************************)
(* A model of color_card_api: the colour arithmetic (hex_to_rgb,           *)
(* get_gradient_color), the renderer create_gradient_image in its two      *)
(* implementations (color_card_api.py and main.py), and the HTTP and       *)
(* command-line entry points that call it.                                 *)
(*                                                                         *)
(* A Python str is a sequence of one-character strings.  A float parameter *)
(* t in [0,1] is the exact fraction <<n, d>>; the rounding of the float    *)
(* arithmetic is the explicit choice fp (see lerp_channel).                *)
(***************************************************************************)
EXTENDS Integers, Sequences, FiniteSets, TLC

VARIABLES
    h_pc, h_in, h_out,            \* hex_to_rgb applied to one input string
    g_pc, g_stops, g_t, g_out,    \* get_gradient_color applied to one (stops, t)
    g_px,                         \* the pixel or line the gradient loop is at
    r_pc, r_impl, r_args, r_out,  \* one direct call of create_gradient_image
    s_pc, s_req, s_call, s_resp,  \* per worker: the request it serves
    files, uuids                  \* the output files written; uuid4 values drawn

hexVars    == <<h_pc, h_in, h_out>>
gradVars   == <<g_pc, g_stops, g_t, g_out, g_px>>
renderVars == <<r_pc, r_impl, r_args, r_out>>
serveVars  == <<s_pc, s_req, s_call, s_resp, files, uuids>>
vars       == <<h_pc, h_in, h_out, g_pc, g_stops, g_t, g_out, g_px,
                r_pc, r_impl, r_args, r_out,
                s_pc, s_req, s_call, s_resp, files, uuids>>

(***************************************************************************)
(* Bounds of the model.                                                    *)
(***************************************************************************)
MaxHexLen == 7      \* longest input string given to hex_to_rgb
MaxUuids  == 2      \* uuid4 values drawn in one behaviour
MaxStops  == 3      \* longest palette given to get_gradient_color
TDen      == 7      \* t ranges over n/d, 1 <= d <= TDen, 0 <= n <= d
MaxSide   == 3      \* widest and tallest canvas the gradient loops fill

(***************************************************************************)
(* Python builtins used by the colour code.                                *)
(***************************************************************************)
HexDigitValue ==
    [c \in {"0","1","2","3","4","5","6","7","8","9",
            "a","b","c","d","e","f","A","B","C","D","E","F"} |->
        CASE c = "0" -> 0  [] c = "1" -> 1  [] c = "2" -> 2  [] c = "3" -> 3
          [] c = "4" -> 4  [] c = "5" -> 5  [] c = "6" -> 6  [] c = "7" -> 7
          [] c = "8" -> 8  [] c = "9" -> 9
          [] c \in {"a","A"} -> 10 [] c \in {"b","B"} -> 11
          [] c \in {"c","C"} -> 12 [] c \in {"d","D"} -> 13
          [] c \in {"e","E"} -> 14 [] c \in {"f","F"} -> 15]

HexDigits  == DOMAIN HexDigitValue
Whitespace == {" ", "\t", "\n"}

\* str.lstrip(c): every leading occurrence of c is removed, not only one.
RECURSIVE py_lstrip(_, _)
py_lstrip(s, c) ==
    IF s # <<>> /\ Head(s) = c THEN py_lstrip(Tail(s), c) ELSE s

\* str.strip(): leading and trailing whitespace removed.
RECURSIVE py_strip(_)
py_strip(s) ==
    IF s = <<>> THEN s
    ELSE IF Head(s) \in Whitespace THEN py_strip(Tail(s))
    ELSE IF s[Len(s)] \in Whitespace THEN py_strip(SubSeq(s, 1, Len(s) - 1))
    ELSE s

\* The value, in base `base`, of a digit string in which single underscores
\* may separate digits.
RECURSIVE DigitsValue(_, _)
DigitsValue(s, base) ==
    IF s = <<>> THEN 0
    ELSE LET front == SubSeq(s, 1, Len(s) - 1)
             last  == s[Len(s)]
         IN  IF last = "_" THEN DigitsValue(front, base)
             ELSE DigitsValue(front, base) * base + HexDigitValue[last]

DigitsOk(s, base) ==
    /\ s # <<>>
    /\ \A i \in 1..Len(s) :
          s[i] = "_" \/ (s[i] \in HexDigits /\ HexDigitValue[s[i]] < base)
    /\ s[1] # "_" /\ s[Len(s)] # "_"
    /\ \A i \in 1..(Len(s) - 1) : ~(s[i] = "_" /\ s[i + 1] = "_")

\* int(s, base) for base 10 or 16: surrounding whitespace, one optional
\* sign, for base 16 an optional 0x prefix, then digits.  ok = FALSE is
\* Python's ValueError.
py_int(s, base) ==
    LET stripped == py_strip(s)
        signed   == stripped # <<>> /\ Head(stripped) \in {"+", "-"}
        negative == signed /\ Head(stripped) = "-"
        unsigned == IF signed THEN Tail(stripped) ELSE stripped
        prefixed == base = 16 /\ Len(unsigned) >= 2 /\ unsigned[1] = "0"
                        /\ unsigned[2] \in {"x", "X"}
        afterPfx == IF prefixed THEN SubSeq(unsigned, 3, Len(unsigned))
                    ELSE unsigned
        digits   == IF prefixed /\ afterPfx # <<>> /\ Head(afterPfx) = "_"
                    THEN Tail(afterPfx) ELSE afterPfx
    IN  IF DigitsOk(digits, base)
        THEN [ok |-> TRUE,
              v  |-> IF negative THEN 0 - DigitsValue(digits, base)
                     ELSE DigitsValue(digits, base)]
        ELSE [ok |-> FALSE, v |-> 0]

\* int(x) of a non-negative or negative quotient a/b, b > 0: truncation to zero.
py_trunc(a, b) == IF a >= 0 THEN a \div b ELSE 0 - ((0 - a) \div b)

(***************************************************************************)
(* hex_to_rgb, color_card_api.py and main.py (the two bodies are the same  *)
(* text).  ok = FALSE is the ValueError the function raises.               *)
(***************************************************************************)
\* int(hex_color[i:i+2], 16)
hex_pair(hex_color, i) == py_int(SubSeq(hex_color, i + 1, i + 2), 16)

hex_to_rgb(hex_color) ==
    LET stripped == py_lstrip(hex_color, "#")
        r == hex_pair(stripped, 0)
        g == hex_pair(stripped, 2)
        b == hex_pair(stripped, 4)
    IN  IF Len(stripped) # 6
        THEN [ok |-> FALSE, error |-> "Invalid color format", rgb |-> <<>>]
        ELSE IF r.ok /\ g.ok /\ b.ok
        THEN [ok |-> TRUE, error |-> "", rgb |-> <<r.v, g.v, b.v>>]
        ELSE [ok |-> FALSE, error |-> "Invalid color value", rgb |-> <<>>]

main_hex_to_rgb(hex_color) ==
    LET stripped == py_lstrip(hex_color, "#")
        r == hex_pair(stripped, 0)
        g == hex_pair(stripped, 2)
        b == hex_pair(stripped, 4)
    IN  IF Len(stripped) # 6
        THEN [ok |-> FALSE, error |-> "Invalid color format", rgb |-> <<>>]
        ELSE IF r.ok /\ g.ok /\ b.ok
        THEN [ok |-> TRUE, error |-> "", rgb |-> <<r.v, g.v, b.v>>]
        ELSE [ok |-> FALSE, error |-> "Invalid color value", rgb |-> <<>>]


\* Python str literals of the inputs.
White     == <<"#", "F", "F", "F", "F", "F", "F">>
Black     == <<"#", "0", "0", "0", "0", "0", "0">>
Grey600   == <<"#", "C", "8", "C", "8", "C", "8">>     \* channels sum to 600
Grey601   == <<"#", "C", "9", "C", "8", "C", "8">>     \* channels sum to 601
Crimson   == <<"#", "D", "C", "1", "4", "3", "C">>
NotHex    == <<"#", "G", "G", "G", "G", "G", "G">>
ColorName == <<"r", "e", "d">>

(***************************************************************************)
(* get_gradient_color, color_card_api.py and main.py (the same text).      *)
(*                                                                         *)
(* t = <<n, d>> stands for the float n/d.  The code computes               *)
(* int(c0 * (1 - t) + c1 * t) in double precision: when the exact value is *)
(* an integer v and t is not exact in binary, the float sum may fall just  *)
(* short of v and int() then yields the neighbour of v nearer to 0         *)
(* (int(254.99999999999997) = 254 for c0 = c1 = 255, t = 3/7).  fp in      *)
(* {0, 1} is that outcome: 0 the exact value, 1 the neighbour; a colour    *)
(* takes one fp per channel, <<fr, fg, fb>>.  FloatOutcome gives the fp of *)
(* IEEE 754 double arithmetic for a t that is the quotient n / d; for a t  *)
(* computed otherwise fp is free unless the computation is exact.  When    *)
(* the exact value is no integer it is at least 1/d away from one, far     *)
(* more than the rounding error, and fp has no effect.  segment and        *)
(* segment_index (more than two stops) are taken exact: rounding can only  *)
(* lower a float segment that is an integer, never raise segment_index.    *)
(***************************************************************************)
RECURSIVE IsPowerOfTwo(_)
IsPowerOfTwo(k) ==
    IF k = 1 THEN TRUE ELSE IF k % 2 # 0 THEN FALSE ELSE IsPowerOfTwo(k \div 2)

RECURSIVE Gcd(_, _)
Gcd(a, b) == IF b = 0 THEN a ELSE Gcd(b, a % b)

\* Whether the float holding n/d is exactly n/d.
ExactFloat(t) == IsPowerOfTwo(t[2] \div Gcd(t[1], t[2]))

Sign(v) == IF v > 0 THEN 1 ELSE IF v < 0 THEN 0 - 1 ELSE 0

\* int(c0 * (1 - t) + c1 * t)
lerp_channel(c0, c1, t, fp) ==
    LET n   == t[1]
        d   == t[2]
        num == c0 * (d - n) + c1 * n
    IN  IF num % d = 0
        THEN (num \div d) - fp * Sign(num \div d)
        ELSE py_trunc(num, d)

\* (r, g, b) of the three channel interpolations between two stops.
lerp_rgb(s0, s1, t, fp) ==
    << lerp_channel(s0[1], s1[1], t, fp[1]),
       lerp_channel(s0[2], s1[2], t, fp[2]),
       lerp_channel(s0[3], s1[3], t, fp[3]) >>

\* rgb_colors[i] with Python's 0-based index; -1 is the last element.  An
\* index outside the list is Python's IndexError.
py_index_ok(rgb_colors, i) ==
    (i >= 0 /\ i < Len(rgb_colors)) \/ (i = 0 - 1 /\ Len(rgb_colors) >= 1)

py_index(rgb_colors, i) ==
    IF i >= 0 THEN rgb_colors[i + 1] ELSE rgb_colors[Len(rgb_colors) + 1 + i]

\* if segment_index >= len(rgb_colors) - 1
clamp_to_last_off_by_one(segment_index, n_colors) == segment_index > n_colors - 1

clamp_to_last(segment_index, n_colors) == segment_index >= n_colors - 1

\* The result: the colour, the branch that produced it, the 0-based indices
\* of rgb_colors it read (-1 stands for len - 1) and the exception, if any.
get_gradient_color(rgb_colors, t, fp) ==
    LET N             == Len(rgb_colors)
        segNum        == t[1] * (N - 1)               \* segment = segNum / d
        segment_index == py_trunc(segNum, t[2])
        segment_t     == << segNum - segment_index * t[2], t[2] >>
        result(rgb, branch, reads) ==
            IF \A i \in reads : py_index_ok(rgb_colors, i)
            THEN [rgb |-> rgb, branch |-> branch, reads |-> reads, error |-> ""]
            ELSE [rgb |-> <<>>, branch |-> branch, reads |-> reads,
                  error |-> "IndexError"]
    IN  IF N = 2
        THEN result(lerp_rgb(rgb_colors[1], rgb_colors[2], t, fp), "two", {0, 1})
        ELSE IF clamp_to_last(segment_index, N)
        THEN result(IF N >= 1 THEN py_index(rgb_colors, 0 - 1) ELSE <<>>,
                    "clamp", {0 - 1})
        ELSE result(IF segment_index + 1 < N
                    THEN lerp_rgb(py_index(rgb_colors, segment_index),
                                  py_index(rgb_colors, segment_index + 1),
                                  segment_t, fp)
                    ELSE <<>>,
                    "segment", {segment_index, segment_index + 1})

main_get_gradient_color(rgb_colors, t, fp) ==
    LET N             == Len(rgb_colors)
        segNum        == t[1] * (N - 1)
        segment_index == py_trunc(segNum, t[2])
        segment_t     == << segNum - segment_index * t[2], t[2] >>
        result(rgb, branch, reads) ==
            IF \A i \in reads : py_index_ok(rgb_colors, i)
            THEN [rgb |-> rgb, branch |-> branch, reads |-> reads, error |-> ""]
            ELSE [rgb |-> <<>>, branch |-> branch, reads |-> reads,
                  error |-> "IndexError"]
    IN  IF N = 2
        THEN result(lerp_rgb(rgb_colors[1], rgb_colors[2], t, fp), "two", {0, 1})
        ELSE IF clamp_to_last(segment_index, N)
        THEN result(IF N >= 1 THEN py_index(rgb_colors, 0 - 1) ELSE <<>>,
                    "clamp", {0 - 1})
        ELSE result(IF segment_index + 1 < N
                    THEN lerp_rgb(py_index(rgb_colors, segment_index),
                                  py_index(rgb_colors, segment_index + 1),
                                  segment_t, fp)
                    ELSE <<>>,
                    "segment", {segment_index, segment_index + 1})

\* <<N, n, d, c0, c1>>: with N stops and t = n / d in lowest terms, the
\* channel interpolated between the stop values c0 and c1 comes out one
\* below its exact value in double arithmetic.  These are all such cases
\* for N <= 5, d <= 9 and stop values 0, 128, 255 (int(255 * (1 - 3/7) +
\* 255 * (3/7)) = int(254.99999999999997) = 254); int(t * (N - 1)) is exact
\* for all of them.
FloatFallsShort ==
    { <<2, 3, 7, 255, 255>>, <<2, 4, 5, 255, 0>>,
      <<3, 2, 3, 0, 255>>, <<3, 2, 5, 255, 0>>, <<3, 3, 5, 0, 255>>,
      <<3, 4, 5, 255, 0>>, <<3, 5, 6, 255, 0>>,
      <<4, 1, 5, 255, 0>>, <<4, 1, 7, 255, 255>>, <<4, 2, 5, 255, 0>>,
      <<4, 3, 5, 0, 255>>, <<4, 4, 5, 255, 0>>, <<4, 4, 9, 0, 255>>,
      <<4, 5, 9, 255, 0>>, <<4, 7, 9, 255, 0>>, <<4, 8, 9, 0, 255>>,
      <<5, 1, 3, 0, 255>>, <<5, 1, 5, 255, 0>>, <<5, 2, 3, 0, 255>>,
      <<5, 2, 5, 255, 0>>, <<5, 3, 5, 0, 255>>, <<5, 4, 5, 255, 0>>,
      <<5, 5, 6, 255, 0>> }

\* The fp of a call: per channel, whether the interpolation between the two
\* stops the call reads falls short.
FloatOutcome(rgb_colors, t) ==
    LET N   == Len(rgb_colors)
        g   == Gcd(t[1], t[2])
        idx == IF N = 2 THEN 0 ELSE py_trunc(t[1] * (N - 1), t[2])
    IN  [i \in 1..3 |->
            IF N >= 2 /\ idx + 2 <= N
                 /\ <<N, t[1] \div g, t[2] \div g,
                      rgb_colors[idx + 1][i], rgb_colors[idx + 2][i]>>
                        \in FloatFallsShort
            THEN 1 ELSE 0]

\* t = y / (height - 1) and t = x / (width - 1), the vertical and horizontal
\* loops; size - 1 = 0 is ZeroDivisionError.
line_t(i, size) == <<i, size - 1>>

pixel_t_undivided(x, y, width, height) ==
    <<x * height + y * width, width * height>>

\* dx = x / width; dy = y / height; t = (dx + dy) / 2, the loops over
\* every pixel.
pixel_t(x, y, width, height) ==
    <<x * height + y * width, 2 * width * height>>

\* The list positions a result read, -1 resolved to len - 1.
ReadPositions(rgb_colors, out) ==
    {IF i < 0 THEN Len(rgb_colors) + i ELSE i : i \in out.reads}

(***************************************************************************)
(* create_gradient_image.                                                  *)
(*                                                                         *)
(* A call is modelled whole: from its arguments and the environment of the *)
(* call (env.content_height: the height the browser measures;  env.fail:   *)
(* the one step of the call that raises, or "none") to the state in which   *)
(* it returns or raises.                                                    *)
(***************************************************************************)
radius         == 50     \* corner radius of the panel
GlowGrow       == 20     \* glow_rect_width = rect_width + 20
GlowRadiusGrow == 10     \* glow_radius = radius + 10
LightSum       == 600    \* sum(background_rgb) > 600

NoPath   == <<>>         \* output_path = None; a path is the sequence of its parts
MdNone   == "<None>"     \* markdown_content = None
MdNumber == "<5>"        \* a JSON number given as markdown: truthy, no str

\* if markdown_content:
Truthy(markdown_content) == markdown_content \notin {MdNone, ""}

\* The steps of the call that may raise, in program order.
RenderSteps ==
    << "read_font", "NamedTemporaryFile", "write", "sync_playwright", "launch",
       "new_page", "set_viewport_size", "goto", "wait_for_load_state",
       "evaluate", "set_viewport_size_2", "wait_for_timeout", "screenshot",
       "browser_close", "Image_open", "draw", "alpha_composite", "paste",
       "unlink", "save" >>

StepNo(step) == CHOOSE i \in 1..Len(RenderSteps) : RenderSteps[i] = step

\* Step `step` ran to its end when the call's failure, if any, is at `fail`.
Passed(fail, step) == fail = "none" \/ StepNo(fail) > StepNo(step)

\* rect_width = int(width * 0.8) ... rect_y = (height - rect_height) // 2
panel_provisional(width, height) ==
    LET rect_width  == (width * 8) \div 10
        rect_height == (height * 8) \div 10
    IN  [rect_x      |-> (width - rect_width) \div 2,
         rect_y      |-> (height - rect_height) \div 2,
         rect_width  |-> rect_width,
         rect_height |-> rect_height]

\* rect_height = content_height + 2 * radius; rect_y recomputed
panel_measured(panel, height, content_height) ==
    LET rect_height == content_height + 2 * radius
    IN  [panel EXCEPT !.rect_height = rect_height,
                      !.rect_y      = (height - rect_height) \div 2]

\* The glow rectangle with its corner rounded towards zero, not floored.
glow_rect_truncating(width, height, panel) ==
    LET glow_rect_width  == panel.rect_width + GlowGrow
        glow_rect_height == panel.rect_height + GlowGrow
    IN  [glow_rect_x      |-> py_trunc(width - glow_rect_width, 2),
         glow_rect_y      |-> py_trunc(height - glow_rect_height, 2),
         glow_rect_width  |-> glow_rect_width,
         glow_rect_height |-> glow_rect_height,
         glow_radius      |-> radius + GlowRadiusGrow]

\* glow_rect_width = rect_width + 20 ... glow_radius = radius + 10
glow_rect(width, height, panel) ==
    LET glow_rect_width  == panel.rect_width + GlowGrow
        glow_rect_height == panel.rect_height + GlowGrow
    IN  [glow_rect_x      |-> (width - glow_rect_width) \div 2,
         glow_rect_y      |-> (height - glow_rect_height) \div 2,
         glow_rect_width  |-> glow_rect_width,
         glow_rect_height |-> glow_rect_height,
         glow_radius      |-> radius + GlowRadiusGrow]

\* is_light_background = sum(background_rgb) > 600
is_light_background(background_rgb) ==
    background_rgb[1] + background_rgb[2] + background_rgb[3] > LightSum

text_color_for(is_light)   == IF is_light THEN "#333333" ELSE "#FFFFFF"
border_color_for(is_light) ==
    IF is_light THEN <<255, 255, 255, 100>> ELSE <<0, 0, 0, 100>>

\* main.py: every text_draw.text call fills (255, 255, 255); every glow shape
\* fills (0, 0, 0, 100).
main_text_fill == "#FFFFFF"
main_glow_fill == <<0, 0, 0, 100>>

\* y / (height - 1) for y in range(height), x / (width - 1) for x in
\* range(width): ZeroDivisionError at the first pixel when the size is 1.
gradient_divides_by_zero(width, height, direction) ==
    \/ direction = "vertical" /\ height = 1
    \/ direction = "horizontal" /\ width = 1

\* The gradient mode the direction argument selects.
gradient_mode(direction) ==
    IF direction \in {"vertical", "horizontal", "bottom-right"} THEN direction
    ELSE "diagonal"

main_gradient_mode(direction) ==
    IF direction \in {"vertical", "horizontal"} THEN direction ELSE "diagonal"

\* Leaving `with sync_playwright() as p:` stops the Playwright driver, and
\* with it every browser the block launched and did not close: whether a
\* browser open at the exit is still held afterwards.
sync_playwright_exit_keeps_browser(browser_open) == browser_open

sync_playwright_exit(browser_open) == FALSE

ZeroPanel == [rect_x |-> 0, rect_y |-> 0, rect_width |-> 0, rect_height |-> 0]
ZeroGlow  == [glow_rect_x |-> 0, glow_rect_y |-> 0, glow_rect_width |-> 0,
              glow_rect_height |-> 0, glow_radius |-> 0]

\* The arguments of no call.
NoArgs ==
    [width |-> 0, height |-> 0, colors |-> <<>>, output_path |-> NoPath,
     markdown_content |-> MdNone, background_color |-> <<>>, direction |-> ""]

\* The state of a call that has not run.
NoRender ==
    [outcome          |-> "not called",  \* "returned" | "raised"
     value            |-> "",            \* "bytes" | "None"
     error            |-> "",            \* the exception raised
     mode             |-> "",            \* the gradient mode drawn
     layers           |-> <<>>,          \* what was drawn onto the image, in order
     geometry         |-> FALSE,         \* the panel rectangle was computed
     panel            |-> ZeroPanel,
     glow             |-> ZeroGlow,
     content_height   |-> 0,             \* what page.evaluate returned
     measured         |-> FALSE,         \* the panel height uses content_height
     text_color       |-> "",
     border_color     |-> <<>>,
     temp_created     |-> FALSE,         \* the temporary HTML file was created
     temp_exists      |-> FALSE,         \* ... and still exists at the exit
     browser_launched |-> FALSE,
     browser_held     |-> FALSE,         \* a browser process is still held
     saved            |-> NoPath]        \* the output file written

Layers(fail, with_text) ==
    <<"gradient">>
      \o (IF Passed(fail, "draw") THEN <<"panel">> ELSE <<>>)
      \o (IF Passed(fail, "alpha_composite") THEN <<"glow">> ELSE <<>>)
      \o (IF with_text /\ Passed(fail, "paste") THEN <<"text">> ELSE <<>>)

\* color_card_api.py, lines 125-269: the markdown branch.
cc_markdown_branch(width, height, output_path, background_rgb, direction, env) ==
    LET fail         == env.fail
        light        == is_light_background(background_rgb)
        temp_created == Passed(fail, "NamedTemporaryFile")
        try_entered  == Passed(fail, "write")
        unlinked     == try_entered /\ fail # "unlink"
        launched     == Passed(fail, "launch")
        closed       == Passed(fail, "browser_close")
        measured     == Passed(fail, "Image_open")
        panel0       == panel_provisional(width, height)
        panel        == IF measured
                        THEN panel_measured(panel0, height, env.content_height)
                        ELSE panel0
        raised       == fail # "none" /\ (fail # "save" \/ output_path # NoPath)
    IN  [NoRender EXCEPT
            !.outcome          = IF raised THEN "raised" ELSE "returned",
            !.value            = IF raised THEN "" ELSE "bytes",
            !.error            = IF raised THEN fail ELSE "",
            !.mode             = gradient_mode(direction),
            !.layers           = Layers(fail, TRUE),
            !.geometry         = TRUE,
            !.panel            = panel,
            !.glow             = IF measured THEN glow_rect(width, height, panel)
                                 ELSE ZeroGlow,
            !.content_height   = IF Passed(fail, "evaluate")
                                 THEN env.content_height ELSE 0,
            !.measured         = measured,
            !.text_color       = text_color_for(light),
            !.border_color     = border_color_for(light),
            !.temp_created     = temp_created,
            !.temp_exists      = temp_created /\ ~unlinked,
            !.browser_launched = launched,
            !.browser_held     = IF launched /\ ~closed
                                 THEN sync_playwright_exit(TRUE) ELSE FALSE,
            !.saved            = IF ~raised THEN output_path ELSE NoPath]

\* color_card_api.py, lines 270-302: no markdown content.
cc_plain_branch(width, height, output_path, background_rgb, direction, env) ==
    LET fail   == IF env.fail \in {"draw", "alpha_composite", "save"}
                  THEN env.fail ELSE "none"
        light  == is_light_background(background_rgb)
        panel  == panel_provisional(width, height)
        raised == fail # "none" /\ (fail # "save" \/ output_path # NoPath)
    IN  [NoRender EXCEPT
            !.outcome      = IF raised THEN "raised" ELSE "returned",
            !.value        = IF raised THEN "" ELSE "bytes",
            !.error        = IF raised THEN fail ELSE "",
            !.mode         = gradient_mode(direction),
            !.layers       = Layers(fail, FALSE),
            !.geometry     = TRUE,
            !.panel        = panel,
            !.glow         = glow_rect(width, height, panel),
            !.text_color   = text_color_for(light),
            !.border_color = border_color_for(light),
            !.saved        = IF ~raised THEN output_path ELSE NoPath]

\* color_card_api.py, lines 43-315.
create_gradient_image(width, height, colors, output_path, markdown_content, background_color, direction, env) ==
    LET rgb_colors     == [i \in 1..Len(colors) |-> hex_to_rgb(colors[i])]
        background_rgb == hex_to_rgb(background_color)
    IN  IF colors = <<>>
        THEN [NoRender EXCEPT !.outcome = "raised", !.error = "ValueError"]
        ELSE IF ~(background_rgb.ok /\ \A i \in 1..Len(colors) : rgb_colors[i].ok)
        THEN [NoRender EXCEPT !.outcome = "returned", !.value = "None"]
        ELSE IF gradient_divides_by_zero(width, height, direction)
        THEN [NoRender EXCEPT !.outcome = "raised", !.error = "ZeroDivisionError",
                              !.mode = gradient_mode(direction)]
        ELSE IF ~Truthy(markdown_content)
        THEN cc_plain_branch(width, height, output_path, background_rgb.rgb,
                             direction, env)
        ELSE IF markdown_content = MdNumber     \* markdown_content.replace
        THEN [NoRender EXCEPT !.outcome = "raised", !.error = "AttributeError",
                              !.mode = gradient_mode(direction),
                              !.layers = <<"gradient">>, !.geometry = TRUE,
                              !.panel = panel_provisional(width, height),
                              !.text_color = text_color_for(
                                  is_light_background(background_rgb.rgb)),
                              !.border_color = border_color_for(
                                  is_light_background(background_rgb.rgb))]
        ELSE cc_markdown_branch(width, height, output_path, background_rgb.rgb,
                                direction, env)

\* main.py, lines 77-240: glow and panel, then the text, then the save.
main_draw_and_save(width, height, output_path, markdown_content, direction, env) ==
    LET with_text  == Truthy(markdown_content)
        panel      == panel_provisional(width, height)
        early      == IF env.fail \in {"draw", "alpha_composite"}
                      THEN env.fail ELSE ""
        \* Image.new('RGBA', (rect_width - 2 * radius, rect_height - 2 * radius)),
        \* then markdown_content.replace, then the drawing and the paste
        text_error == IF ~with_text THEN ""
                      ELSE IF panel.rect_width - 2 * radius < 0
                              \/ panel.rect_height - 2 * radius < 0
                      THEN "ValueError"
                      ELSE IF markdown_content = MdNumber THEN "AttributeError"
                      ELSE IF env.fail = "paste" THEN "paste"
                      ELSE ""
        \* image.save(output_path)
        save_error == IF output_path = NoPath THEN "ValueError"
                      ELSE IF env.fail = "save" THEN "save"
                      ELSE ""
        error      == IF early # "" THEN early
                      ELSE IF text_error # "" THEN text_error
                      ELSE save_error
    IN  [NoRender EXCEPT
            !.outcome      = IF error # "" THEN "raised" ELSE "returned",
            !.value        = IF error # "" THEN "" ELSE "None",
            !.error        = error,
            !.mode         = main_gradient_mode(direction),
            !.layers       = <<"gradient">>
                               \o (IF early # "draw" THEN <<"panel">> ELSE <<>>)
                               \o (IF early = "" THEN <<"glow">> ELSE <<>>)
                               \o (IF with_text /\ early = "" /\ text_error = ""
                                   THEN <<"text">> ELSE <<>>),
            !.geometry     = TRUE,
            !.panel        = panel,
            !.glow         = glow_rect(width, height, panel),
            !.text_color   = IF with_text THEN main_text_fill ELSE "",
            !.border_color = main_glow_fill,
            !.saved        = IF error = "" THEN output_path ELSE NoPath]

\* main.py, lines 24-240.
main_create_gradient_image(width, height, colors, output_path, markdown_content, background_color, direction, env) ==
    LET rgb_colors     == [i \in 1..Len(colors) |-> main_hex_to_rgb(colors[i])]
        background_rgb == main_hex_to_rgb(background_color)
    IN  IF colors = <<>>
        THEN [NoRender EXCEPT !.outcome = "raised", !.error = "ValueError"]
        ELSE IF ~(background_rgb.ok /\ \A i \in 1..Len(colors) : rgb_colors[i].ok)
        THEN [NoRender EXCEPT !.outcome = "returned", !.value = "None"]
        ELSE IF gradient_divides_by_zero(width, height, direction)
        THEN [NoRender EXCEPT !.outcome = "raised", !.error = "ZeroDivisionError",
                              !.mode = main_gradient_mode(direction)]
        ELSE main_draw_and_save(width, height, output_path, markdown_content,
                                direction, env)

\* The call of either file's create_gradient_image with the arguments a.
CallCreateGradientImage(impl, a, env) ==
    IF impl = "cc"
    THEN create_gradient_image(a.width, a.height, a.colors, a.output_path,
                               a.markdown_content, a.background_color,
                               a.direction, env)
    ELSE main_create_gradient_image(a.width, a.height, a.colors, a.output_path,
                                    a.markdown_content, a.background_color,
                                    a.direction, env)

(***************************************************************************)
(* The entry points: generate_image of color_card_api.py ("cc_http") and   *)
(* of api.py ("api_http"), main of color_card_api.py ("cc_cli") and of     *)
(* main.py ("main_cli").  Each is modelled in two steps, up to its call of *)
(* create_gradient_image and from that call to its end, so that two        *)
(* workers can be inside the call at once.                                 *)
(*                                                                         *)
(* A request is [handler, fields, id, markdown, background_color,          *)
(* direction, output]: fields are the keys the JSON body holds (for the    *)
(* command line, the options given); id is [kind, v], an int or a str.     *)
(* Statuses are strings: "200", "400", "404", "500" for HTTP; for the      *)
(* command line "ok" (Generated image ... printed), "usage", "read_error", *)
(* "not_found", "skipped", "md_error", "error".                            *)
(***************************************************************************)
OUTPUT_DIR == "gradient_images"
CanvasWidth  == 1080
CanvasHeight == 1920

\* color_zh.json: the palette table the handlers read.
colors_data ==
    << [id |-> 1, name |-> "coral",  colors |-> <<Black, White>>],
       [id |-> 2, name |-> "dusk",   colors |-> <<Black, Crimson, White>>],
       [id |-> 1, name |-> "coral2", colors |-> <<White, Black>>],
       [id |-> 3, name |-> "blank",  colors |-> <<>>] >>

\* next((item for item in colors_data if item["id"] == color_id), None):
\* the index of the first record with that id, 0 for None.
find_color_item_or_default(color_id) ==
    LET hits == {i \in 1..Len(colors_data) : colors_data[i].id = color_id}
    IN  IF hits = {} THEN 1 ELSE CHOOSE i \in hits : \A j \in hits : i <= j

find_color_item(color_id) ==
    LET hits == {i \in 1..Len(colors_data) : colors_data[i].id = color_id}
    IN  IF hits = {} THEN 0 ELSE CHOOSE i \in hits : \A j \in hits : i <= j

\* not background_color.startswith('#') or len(background_color) != 7
background_color_rejected(background_color) ==
    ~(background_color # <<>> /\ Head(background_color) = "#")
        \/ Len(background_color) # 7

valid_directions     == {"vertical", "horizontal", "diagonal", "bottom-right"}
api_valid_directions == {"vertical", "horizontal", "diagonal"}

\* f"gradient_{color_id}_{color_item['name']}_{unique_id}.png" in OUTPUT_DIR
http_output_path(color_id, name, unique_id) ==
    <<OUTPUT_DIR, "gradient", ToString(color_id), name, unique_id>>

\* f"gradient_{id}_{name}.png" in output_dir
cli_output_path(id, name) == <<OUTPUT_DIR, "gradient", ToString(id), name>>

\* str(uuid.uuid4()): the n-th value drawn differs from every other one.
uuid4(n) == ToString(n)

MdFile == "@notes.md"       \* --markdown @path
MdFileContent == "# Hello"  \* what the file at that path holds

\* A JSON or argparse value given as id: the int n, the str s, or none.
IntId(n) == [kind |-> "int", n |-> n, s |-> <<>>]
StrId(s) == [kind |-> "str", n |-> 0, s |-> s]
AbsentId == [kind |-> "absent", n |-> 0, s |-> <<>>]

NoResponse ==
    [status         |-> "",
     reason         |-> "",
     named_id       |-> AbsentId,      \* the id a not-found message quotes
     palette_opened |-> FALSE,     \* color_zh.json was opened
     uuid_drawn     |-> FALSE,
     item           |-> 0,         \* index of the record used, 0 for none
     warned         |-> FALSE,     \* the background colour warning was printed
     called_render  |-> FALSE,     \* create_gradient_image was called
     render         |-> NoRender,  \* ... and how that call ended
     escaped        |-> FALSE]     \* an exception was raised after the return

Reject(status, reason, palette_opened) ==
    [next |-> "respond", call |-> NoArgs,
     resp |-> [NoResponse EXCEPT !.status = status, !.reason = reason,
                                 !.palette_opened = palette_opened]]

Proceed(item, colors, output_path, markdown_content, background_color, direction, uuid_drawn, warned) ==
    [next |-> "render",
     call |-> [width |-> CanvasWidth, height |-> CanvasHeight, colors |-> colors,
               output_path |-> output_path,
               markdown_content |-> markdown_content,
               background_color |-> background_color, direction |-> direction],
     resp |-> [NoResponse EXCEPT !.palette_opened = TRUE, !.item = item,
                                 !.uuid_drawn = uuid_drawn, !.warned = warned]]

\* color_card_api.py generate_image, lines 339-398.
generate_image_begin(data, palette_ok, unique_id) ==
    LET color_id == IF data.id.kind = "int"
                    THEN [ok |-> TRUE, v |-> data.id.n]
                    ELSE py_int(data.id.s, 10)
        background_color == IF "background_color" \in data.fields
                            THEN data.background_color ELSE White
        direction == IF "direction" \in data.fields
                     THEN data.direction ELSE "bottom-right"
        item == find_color_item(color_id.v)
    IN  IF data.fields = {} \/ "id" \notin data.fields
              \/ "markdown" \notin data.fields
        THEN Reject("400", "Missing required parameters", FALSE)
        ELSE IF ~color_id.ok
        THEN Reject("400", "Invalid id format", FALSE)
        ELSE IF background_color_rejected(background_color)
        THEN Reject("400", "Invalid background_color format", FALSE)
        ELSE IF direction \notin valid_directions
        THEN Reject("400", "Invalid direction", FALSE)
        ELSE IF ~palette_ok
        THEN Reject("500", "Error reading color data", TRUE)
        ELSE IF item = 0
        THEN [next |-> "respond", call |-> NoArgs,
              resp |-> [NoResponse EXCEPT !.status = "404",
                                          !.reason = "No color found with ID",
                                          !.named_id = IntId(color_id.v),
                                          !.palette_opened = TRUE]]
        ELSE Proceed(item, colors_data[item].colors,
                     http_output_path(color_id.v, colors_data[item].name, unique_id),
                     data.markdown, background_color, direction, TRUE, FALSE)

\* color_card_api.py generate_image, lines 400-412.
\* send_file(None, mimetype='image/png') is Flask's: it either raises inside
\* the handler (send_file_raises: it opens the file it was given), or wraps
\* the object unread and returns the response, and the read of the body,
\* None.read, raises in the server once the handler has returned.
generate_image_finish(resp, img_bytes, send_file_raises) ==
    LET caught == img_bytes.outcome = "raised"
                    \/ (img_bytes.value = "None" /\ send_file_raises)
    IN  [resp EXCEPT
            !.called_render = TRUE,
            !.render = img_bytes,
            !.status = IF caught THEN "500" ELSE "200",
            !.reason = IF caught THEN "Internal server error" ELSE "",
            !.escaped = ~caught /\ img_bytes.value = "None"]

\* api.py generate_image, lines 17-65.
api_generate_image_begin(data, palette_ok, unique_id) ==
    LET color_id == data.id
        background_color == IF "background_color" \in data.fields
                            THEN data.background_color ELSE Black
        direction == IF "direction" \in data.fields
                     THEN data.direction ELSE "vertical"
        \* item["id"] == color_id: no int equals a str
        item == IF color_id.kind = "int" THEN find_color_item(color_id.n) ELSE 0
    IN  IF data.fields = {} \/ "id" \notin data.fields
              \/ "markdown" \notin data.fields
        THEN Reject("400", "Missing required parameters", FALSE)
        ELSE IF background_color_rejected(background_color)
        THEN Reject("400", "Invalid background_color format", FALSE)
        ELSE IF direction \notin api_valid_directions
        THEN Reject("400", "Invalid direction", FALSE)
        ELSE IF ~palette_ok
        THEN Reject("500", "Error reading color data", TRUE)
        ELSE IF item = 0
        THEN [next |-> "respond", call |-> NoArgs,
              resp |-> [NoResponse EXCEPT !.status = "404",
                                          !.reason = "No color found with ID",
                                          !.named_id = color_id,
                                          !.palette_opened = TRUE]]
        ELSE Proceed(item, colors_data[item].colors,
                     http_output_path(color_id.n, colors_data[item].name, unique_id),
                     data.markdown, background_color, direction, TRUE, FALSE)

\* api.py generate_image, lines 67-79: send_file(output_path) needs the file.
api_generate_image_finish(resp, result, file_exists) ==
    [resp EXCEPT
        !.called_render = TRUE,
        !.render = result,
        !.status = IF result.outcome = "raised" \/ ~file_exists
                   THEN "500" ELSE "200",
        !.reason = IF result.outcome = "raised" \/ ~file_exists
                   THEN "Internal server error" ELSE ""]

\* color_card_api.py main, lines 414-471.
main_begin(args, palette_ok, md_file_ok) ==
    LET item == find_color_item(args.id.n)
        reads_file == args.markdown = MdFile
        markdown_content == IF reads_file THEN MdFileContent ELSE args.markdown
        bad_background == background_color_rejected(args.background_color)
        background_color == IF bad_background THEN White
                            ELSE args.background_color
        output_path == IF args.output # NoPath THEN args.output
                       ELSE cli_output_path(args.id.n, colors_data[item].name)
    IN  IF args.direction \notin valid_directions       \* argparse choices
        THEN Reject("usage", "invalid choice", FALSE)
        ELSE IF ~palette_ok
        THEN Reject("read_error", "Error reading color_zh.json", TRUE)
        ELSE IF item = 0
        THEN [next |-> "respond", call |-> NoArgs,
              resp |-> [NoResponse EXCEPT !.status = "not_found",
                                          !.reason = "No color found with ID",
                                          !.named_id = args.id,
                                          !.palette_opened = TRUE]]
        ELSE IF colors_data[item].colors = <<>>
        THEN [Reject("skipped", "no colors provided", TRUE)
                 EXCEPT !.resp.item = item]
        ELSE IF reads_file /\ ~md_file_ok
        THEN [Reject("md_error", "Error reading markdown file", TRUE)
                 EXCEPT !.resp.item = item]
        ELSE Proceed(item, colors_data[item].colors, output_path,
                     markdown_content, background_color, args.direction,
                     FALSE, bad_background)

\* main.py main, lines 272-308.
main_main_begin(args, palette_ok) ==
    LET item == find_color_item(args.id.n)
    IN  IF ~palette_ok
        THEN Reject("read_error", "Error reading color_zh.json", TRUE)
        ELSE IF item = 0
        THEN [next |-> "respond", call |-> NoArgs,
              resp |-> [NoResponse EXCEPT !.status = "not_found",
                                          !.reason = "No color found with ID",
                                          !.named_id = args.id,
                                          !.palette_opened = TRUE]]
        ELSE IF colors_data[item].colors = <<>>
        THEN [Reject("skipped", "no colors provided", TRUE)
                 EXCEPT !.resp.item = item]
        ELSE Proceed(item, colors_data[item].colors,
                     cli_output_path(args.id.n, colors_data[item].name),
                     args.markdown, Black, "vertical", FALSE, FALSE)

\* color_card_api.py main, lines 473-480, and main.py main, lines 310-314.
main_finish(resp, result) ==
    [resp EXCEPT
        !.called_render = TRUE,
        !.render = result,
        !.status = IF result.outcome = "raised" THEN "error" ELSE "ok",
        !.reason = IF result.outcome = "raised"
                   THEN "Error processing color item" ELSE "Generated image"]

(***************************************************************************)
(* Inputs of the colour functions.                                         *)
(***************************************************************************)
InputChars == {"#", "1", "F", "G", "-"}

RECURSIVE StringsUpTo(_)
StringsUpTo(k) ==
    IF k = 0 THEN {<<>>}
    ELSE LET shorter == StringsUpTo(k - 1)
         IN  shorter \cup {Append(s, c) : s \in {x \in shorter : Len(x) = k - 1},
                                          c \in InputChars}

StopColors == {<<0, 0, 0>>, <<255, 255, 255>>, <<255, 0, 128>>}

Palettes == UNION {[1..k -> StopColors] : k \in 1..MaxStops}

Fractions == {<<n, d>> : n \in 0..TDen, d \in 1..TDen} \cap
             {t \in (0..TDen) \X (1..TDen) : t[1] <= t[2]}

FpChoices == {0, 1} \X {0, 1} \X {0, 1}

NoHex  == [ok |-> FALSE, error |-> "not called", rgb |-> <<>>]
NoGrad == [rgb |-> <<>>, branch |-> "not called", reads |-> {}, error |-> ""]

\* g_px: the canvas and direction of a gradient fill and, once drawn, the
\* pixel (x, y) of the latest draw.point, or the row y or column x of the
\* latest draw.line.
NoPixel ==
    [direction |-> "", width |-> 0, height |-> 0, x |-> 0, y |-> 0,
     drawn |-> FALSE]

HexIdle  == h_pc = "idle" /\ h_in = <<>> /\ h_out = [cc |-> NoHex, main |-> NoHex]
GradIdle ==
    /\ g_pc = "idle" /\ g_stops = <<>> /\ g_t = <<0, 1>>
    /\ g_out = [cc |-> NoGrad, main |-> NoGrad]
    /\ g_px = NoPixel

Canvases       == {<<1080, 1920>>, <<100, 100>>, <<1, 1>>, <<1, 100>>, <<100, 1>>}
ContentHeights == {40, 500, 1820, 1821, 3000}
ColorLists     == {<<>>, <<Black, White>>, <<Black, Crimson, White>>,
                   <<Black, NotHex>>}
Backgrounds    == {White, Black, Grey600, Grey601, NotHex, ColorName}
Markdowns      == {MdNone, "", "# Hello", MdNumber}
Directions     == {"vertical", "horizontal", "diagonal", "bottom-right", "sideways"}
OutputPaths    == {NoPath, <<"out.png">>}

Range(f) == {f[i] : i \in DOMAIN f}

\* The environments of a call: content_height has a value only when
\* page.evaluate returned.
RenderEnvs ==
    {e \in [content_height : ContentHeights \cup {0},
            fail : {"none"} \cup Range(RenderSteps)] :
        IF Passed(e.fail, "evaluate") THEN e.content_height \in ContentHeights
        ELSE e.content_height = 0}

RenderArgs ==
    {a \in [width : {c[1] : c \in Canvases}, height : {c[2] : c \in Canvases},
            colors : ColorLists, output_path : OutputPaths,
            markdown_content : Markdowns, background_color : Backgrounds,
            direction : Directions] : <<a.width, a.height>> \in Canvases}

RenderIdle ==
    r_pc = "idle" /\ r_impl = "cc" /\ r_args = NoArgs /\ r_out = NoRender

Procs == {1, 2}             \* the workers

AllFields == {"id", "markdown", "background_color", "direction"}

Request(handler, fields, id, markdown, background_color, direction, output) ==
    [handler |-> handler, fields |-> fields, id |-> id, markdown |-> markdown,
     background_color |-> background_color, direction |-> direction,
     output |-> output]

NoRequest == Request("", {}, AbsentId, MdNone, <<>>, "", NoPath)

JsonIds         == {IntId(1), IntId(3), IntId(9), StrId(<<"1">>), StrId(<<"x">>)}
HttpMarkdowns   == {"", "# Hello", MdNumber}
HttpBackgrounds == {White, NotHex, ColorName}

\* The JSON bodies: every field given; only the required ones; one or both
\* of the required ones missing.
HttpRequests ==
    UNION {
        {Request(h, AllFields, i, m, b, d, NoPath) :
            i \in JsonIds, m \in HttpMarkdowns, b \in HttpBackgrounds,
            d \in Directions}
        \cup {Request(h, {"id", "markdown"}, i, m, <<>>, "", NoPath) :
            i \in JsonIds, m \in HttpMarkdowns}
        \cup {Request(h, {"id", "background_color"}, i, MdNone, b, "", NoPath) :
            i \in JsonIds, b \in HttpBackgrounds}
        \cup {Request(h, {"markdown", "background_color"}, AbsentId, m, b, "", NoPath) :
            m \in HttpMarkdowns, b \in HttpBackgrounds}
        \cup {Request(h, {}, AbsentId, MdNone, <<>>, "", NoPath)}
        : h \in {"cc_http", "api_http"}}

\* The command lines: argparse has made id an int.
CliRequests ==
    {Request("cc_cli", AllFields, i, m, b, d, o) :
        i \in {IntId(1), IntId(3), IntId(9)}, m \in {MdNone, "# Hello", MdFile},
        b \in HttpBackgrounds, d \in {"vertical", "bottom-right", "sideways"},
        o \in OutputPaths}
    \cup {Request("main_cli", {"id", "markdown"}, i, m, <<>>, "", NoPath) :
        i \in {IntId(1), IntId(3), IntId(9)}, m \in {MdNone, "# Hello"}}

Requests == HttpRequests \cup CliRequests

\* Requests for palette 1 that pass every check, one per entry point.
ConcurrentRequests ==
    {Request(h, AllFields, IntId(1), "", White, "vertical", NoPath) :
        h \in {"cc_http", "api_http", "cc_cli"}}
    \cup {Request("main_cli", {"id", "markdown"}, IntId(1), MdNone, <<>>, "", NoPath)}

ServeIdle ==
    /\ s_pc = [p \in Procs |-> "idle"]
    /\ s_req = [p \in Procs |-> NoRequest]
    /\ s_call = [p \in Procs |-> NoArgs]
    /\ s_resp = [p \in Procs |-> NoResponse]
    /\ files = {}
    /\ uuids = 0

(***************************************************************************)
(* SpecHex: hex_to_rgb of both files applied to one string.                *)
(***************************************************************************)
InitHex ==
    /\ h_pc = "ready"
    /\ h_in \in StringsUpTo(MaxHexLen)
    /\ h_out = [cc |-> NoHex, main |-> NoHex]
    /\ GradIdle
    /\ RenderIdle
    /\ ServeIdle

ApplyHex ==
    /\ h_pc = "ready"
    /\ h_pc' = "done"
    /\ h_out' = [cc |-> hex_to_rgb(h_in), main |-> main_hex_to_rgb(h_in)]
    /\ UNCHANGED <<h_in, gradVars, renderVars, serveVars>>

NextHex == ApplyHex

SpecHex == InitHex /\ [][NextHex]_vars

(***************************************************************************)
(* SpecGradient: get_gradient_color applied to one palette and one t.      *)
(***************************************************************************)
InitGradient ==
    /\ g_pc = "ready"
    /\ g_stops \in Palettes
    /\ g_t \in Fractions
    /\ g_out = [cc |-> NoGrad, main |-> NoGrad]
    /\ g_px = NoPixel
    /\ HexIdle
    /\ RenderIdle
    /\ ServeIdle

ApplyGradient ==
    /\ g_pc = "ready"
    /\ \E fp \in FpChoices :
          /\ fp = FloatOutcome(g_stops, g_t)
          /\ g_out' = [cc   |-> get_gradient_color(g_stops, g_t, fp),
                       main |-> main_get_gradient_color(g_stops, g_t, fp)]
    /\ g_pc' = "done"
    /\ UNCHANGED <<g_stops, g_t, g_px, hexVars, renderVars, serveVars>>

NextGradient == ApplyGradient

SpecGradient == InitGradient /\ [][NextGradient]_vars

(***************************************************************************)
(* The gradient loops of create_gradient_image, color_card_api.py lines    *)
(* 75-104 and main.py lines 53-75, one iteration a step.                   *)
(***************************************************************************)
InitFill ==
    /\ g_pc = "fill"
    /\ g_stops \in Palettes
    /\ g_t = <<0, 1>>
    /\ g_out = [cc |-> NoGrad, main |-> NoGrad]
    /\ g_px \in {[NoPixel EXCEPT !.direction = d, !.width = w, !.height = h] :
                    d \in Directions, w \in 1..MaxSide, h \in 1..MaxSide}
    /\ HexIdle
    /\ RenderIdle
    /\ ServeIdle

\* One iteration with parameter t at loop position (x, y); exact says that
\* t and the interpolation are computed without rounding; last, that the
\* loop ends with it.
FillStep(t, x, y, exact, last) ==
    /\ \E fp \in FpChoices :
          /\ exact => fp = <<0, 0, 0>>
          /\ g_out' = [cc   |-> get_gradient_color(g_stops, t, fp),
                       main |-> main_get_gradient_color(g_stops, t, fp)]
    /\ g_t' = t
    /\ g_px' = [g_px EXCEPT !.x = x, !.y = y, !.drawn = TRUE]
    /\ g_pc' = IF g_out'.cc.error # "" THEN "raised"
               ELSE IF last THEN "filled" ELSE "fill"

\* for y in range(height): t = y / (height - 1); ...; draw.line, and
\* for x in range(width): t = x / (width - 1); ...; draw.line.
DrawLine ==
    /\ g_pc = "fill"
    /\ g_px.direction \in {"vertical", "horizontal"}
    /\ LET size == IF g_px.direction = "vertical" THEN g_px.height
                   ELSE g_px.width
           at   == IF g_px.direction = "vertical" THEN g_px.y ELSE g_px.x
           i    == IF g_px.drawn THEN at + 1 ELSE 0
       IN  IF size = 1
           THEN /\ g_pc' = "raised"        \* ZeroDivisionError
                /\ UNCHANGED <<g_t, g_out, g_px>>
           ELSE FillStep(line_t(i, size),
                         IF g_px.direction = "vertical" THEN 0 ELSE i,
                         IF g_px.direction = "vertical" THEN i ELSE 0,
                         ExactFloat(line_t(i, size)), i = size - 1)
    /\ UNCHANGED <<g_stops, hexVars, renderVars, serveVars>>

\* for y in range(height): for x in range(width): ...; draw.point: the
\* bottom-right branch and the else branch.
DrawPoint ==
    /\ g_pc = "fill"
    /\ g_px.direction \notin {"vertical", "horizontal"}
    /\ LET wrap == g_px.x + 1 = g_px.width
           x    == IF ~g_px.drawn \/ wrap THEN 0 ELSE g_px.x + 1
           y    == IF ~g_px.drawn THEN 0 ELSE IF wrap THEN g_px.y + 1 ELSE g_px.y
       IN  FillStep(pixel_t(x, y, g_px.width, g_px.height), x, y,
                    ExactFloat(<<x, g_px.width>>) /\ ExactFloat(<<y, g_px.height>>),
                    x = g_px.width - 1 /\ y = g_px.height - 1)
    /\ UNCHANGED <<g_stops, hexVars, renderVars, serveVars>>

NextFill == DrawLine \/ DrawPoint

SpecFill == InitFill /\ [][NextFill]_vars

(***************************************************************************)
(* SpecRender: one direct call of create_gradient_image, of either file,   *)
(* with any arguments and any environment.                                 *)
(***************************************************************************)
InitRender ==
    /\ r_pc = "ready"
    /\ r_impl \in {"cc", "main"}
    /\ r_args \in RenderArgs
    /\ r_out = NoRender
    /\ HexIdle
    /\ GradIdle
    /\ ServeIdle

Render ==
    /\ r_pc = "ready"
    /\ \E env \in RenderEnvs :
          r_out' = CallCreateGradientImage(r_impl, r_args, env)
    /\ r_pc' = "done"
    /\ UNCHANGED <<r_impl, r_args, hexVars, gradVars, serveVars>>

NextRender == Render

SpecRender == InitRender /\ [][NextRender]_vars

(***************************************************************************)
(* The entry points as actions of a worker p.                              *)
(***************************************************************************)
HandlerImpl(handler) == IF handler \in {"cc_http", "cc_cli"} THEN "cc" ELSE "main"

HandlerBegin(req, palette_ok, md_file_ok, unique_id) ==
    CASE req.handler = "cc_http"  -> generate_image_begin(req, palette_ok, unique_id)
      [] req.handler = "api_http" -> api_generate_image_begin(req, palette_ok, unique_id)
      [] req.handler = "cc_cli"   -> main_begin(req, palette_ok, md_file_ok)
      [] req.handler = "main_cli" -> main_main_begin(req, palette_ok)

HandlerFinish(handler, resp, result, file_exists, send_file_raises) ==
    CASE handler = "cc_http"  -> generate_image_finish(resp, result, send_file_raises)
      [] handler = "api_http" -> api_generate_image_finish(resp, result, file_exists)
      [] handler \in {"cc_cli", "main_cli"} -> main_finish(resp, result)

\* Worker p takes request req and runs its entry point up to the call of
\* create_gradient_image, or to the response that ends it earlier.
Begin(p, req, palette_ok, md_file_ok) ==
    /\ s_pc[p] = "idle"
    /\ \E b \in {HandlerBegin(req, palette_ok, md_file_ok, uuid4(uuids + 1))} :
           /\ b.resp.uuid_drawn => uuids < MaxUuids
           /\ uuids' = IF b.resp.uuid_drawn THEN uuids + 1 ELSE uuids
           /\ s_pc' = [s_pc EXCEPT ![p] = IF b.next = "render" THEN "rendering"
                                          ELSE "done"]
           /\ s_req' = [s_req EXCEPT ![p] = req]
           /\ s_call' = [s_call EXCEPT ![p] = b.call]
           /\ s_resp' = [s_resp EXCEPT ![p] = b.resp]
    /\ UNCHANGED <<files, hexVars, gradVars, renderVars>>

\* Worker p calls create_gradient_image and ends its request.
Finish(p, env, send_file_raises) ==
    /\ s_pc[p] = "rendering"
    /\ \E result \in {CallCreateGradientImage(HandlerImpl(s_req[p].handler),
                                              s_call[p], env)} :
          /\ files' = IF result.saved # NoPath THEN files \cup {result.saved}
                      ELSE files
          /\ s_resp' = [s_resp EXCEPT ![p] =
                           HandlerFinish(s_req[p].handler, s_resp[p], result,
                                         s_call[p].output_path \in files',
                                         send_file_raises)]
    /\ s_pc' = [s_pc EXCEPT ![p] = "done"]
    /\ UNCHANGED <<s_req, s_call, uuids, hexVars, gradVars, renderVars>>

\* Worker p is ready for its next request.
Reset(p) ==
    /\ s_pc[p] = "done"
    /\ s_pc' = [s_pc EXCEPT ![p] = "idle"]
    /\ s_req' = [s_req EXCEPT ![p] = NoRequest]
    /\ s_call' = [s_call EXCEPT ![p] = NoArgs]
    /\ s_resp' = [s_resp EXCEPT ![p] = NoResponse]
    /\ UNCHANGED <<files, uuids, hexVars, gradVars, renderVars>>

InitServe == HexIdle /\ GradIdle /\ RenderIdle /\ ServeIdle

(***************************************************************************)
(* SpecServe: one worker serving any requests, one after the other.        *)
(***************************************************************************)
NextServe ==
    \/ \E req \in Requests, palette_ok \in BOOLEAN, md_file_ok \in BOOLEAN :
          Begin(1, req, palette_ok, md_file_ok)
    \/ \E env \in RenderEnvs, send_file_raises \in BOOLEAN :
          Finish(1, env, send_file_raises)
    \/ Reset(1)

SpecServe == InitServe /\ [][NextServe]_vars

(***************************************************************************)
(* SpecConcurrent: two workers serving requests for the same palette.      *)
(***************************************************************************)
NextConcurrent ==
    \E p \in Procs :
        \/ \E req \in ConcurrentRequests : Begin(p, req, TRUE, TRUE)
        \/ \E env \in RenderEnvs, send_file_raises \in BOOLEAN :
              Finish(p, env, send_file_raises)
        \/ Reset(p)

SpecConcurrent == InitServe /\ [][NextConcurrent]_vars

(***************************************************************************)
(* Claims about the colour functions.                                      *)
(***************************************************************************)
Impls == {"cc", "main"}     \* color_card_api.py, main.py

\* hex_color without one leading '#', if it has one.
StripOneHash(s) == IF s # <<>> /\ Head(s) = "#" THEN Tail(s) ELSE s

IsSixHexDigits(s) == Len(s) = 6 /\ \A i \in 1..6 : s[i] \in HexDigits

ByteOf(s, i) == 16 * HexDigitValue[s[i]] + HexDigitValue[s[i + 1]]

\* C10: hex_to_rgb strips a leading '#', fails for every input whose
\* remaining string is not exactly six hexadecimal digits, and for every
\* input it accepts returns the three byte values the six digits encode.
C10_HexToRgbOnlySixHexDigits ==
    h_pc = "done" =>
        \A impl \in Impls :
            LET rest == StripOneHash(h_in)
            IN  /\ h_out[impl].ok <=> IsSixHexDigits(rest)
                /\ h_out[impl].ok =>
                      h_out[impl].rgb = <<ByteOf(rest, 1), ByteOf(rest, 3), ByteOf(rest, 5)>>

\* C9: for N >= 2 stops, t = 0 yields stops[0] and t = 1 yields stops[N-1];
\* for N > 2 the value at t = 1 comes from the clamp branch; stops[N] is
\* never read.
C9_GradientEndpoints ==
    (g_pc = "done" /\ Len(g_stops) >= 2) =>
        \A impl \in Impls :
            LET out == g_out[impl]
                N   == Len(g_stops)
            IN  /\ g_t[1] = 0 => (out.error = "" /\ out.rgb = g_stops[1])
                /\ g_t[1] = g_t[2] => (out.error = "" /\ out.rgb = g_stops[N])
                /\ (N > 2 /\ g_t[1] = g_t[2]) => out.branch = "clamp"
                /\ N \notin ReadPositions(g_stops, out)

\* A three-stop palette of distinct colours evaluated at t = 1 by the clamp
\* branch.
C9_Witness ==
    /\ g_pc = "done" /\ Len(g_stops) = 3 /\ g_t[1] = g_t[2]
    /\ g_stops[3] # g_stops[1] /\ g_stops[3] # g_stops[2]
    /\ g_out["cc"].branch = "clamp" /\ g_out["cc"].rgb = g_stops[3]
    /\ g_out["main"].branch = "clamp" /\ g_out["main"].rgb = g_stops[3]

(***************************************************************************)
(* Claims about create_gradient_image.                                     *)
(***************************************************************************)
Called == r_pc = "done"

\* C1: whenever create_gradient_image, of either file, completes a render
\* with non-empty markdown content, the panel height is the measured content
\* height plus 2 * radius, the panel is centred vertically at
\* (height - rect_height) // 2, and its x position and width are those of the
\* provisional pass.
C1_PanelHeightIsMeasuredHeight ==
    (Called /\ Truthy(r_args.markdown_content) /\ r_out.outcome = "returned"
        /\ r_out.geometry)
    => /\ r_out.measured
       /\ r_out.panel.rect_height = r_out.content_height + 2 * radius
       /\ r_out.panel.rect_y = (r_args.height - r_out.panel.rect_height) \div 2
       /\ r_out.panel.rect_x = panel_provisional(r_args.width, r_args.height).rect_x
       /\ r_out.panel.rect_width =
              panel_provisional(r_args.width, r_args.height).rect_width

\* C2: for any canvas size and any measured content height, the panel
\* rectangle of a completed render of color_card_api.py lies inside the
\* canvas: 0 <= rect_x, 0 <= rect_y, rect_x + rect_width <= width,
\* rect_y + rect_height <= height.
C2_PanelInsideCanvas ==
    (Called /\ r_impl = "cc" /\ r_out.outcome = "returned" /\ r_out.geometry)
    => /\ 0 <= r_out.panel.rect_x
       /\ 0 <= r_out.panel.rect_y
       /\ r_out.panel.rect_x + r_out.panel.rect_width <= r_args.width
       /\ r_out.panel.rect_y + r_out.panel.rect_height <= r_args.height

ChannelSum(background_color) ==
    LET c == StripOneHash(background_color)
    IN  ByteOf(c, 1) + ByteOf(c, 3) + ByteOf(c, 5)

\* C3: in either file, a render whose background channels sum to more than
\* 600 uses the light glow tint and, for its text, #333333; any other render
\* uses the dark glow tint and, for its text, #FFFFFF.
C3_TextAndGlowFollowLuminance ==
    (Called /\ r_out.geometry)
    => LET light == ChannelSum(r_args.background_color) > 600
       IN  /\ r_out.border_color = IF light THEN <<255, 255, 255, 100>>
                                   ELSE <<0, 0, 0, 100>>
           /\ Truthy(r_args.markdown_content)
                => r_out.text_color = IF light THEN "#333333" ELSE "#FFFFFF"

\* The steps the temporary file's removal is claimed for.
C6Steps == {"write", "sync_playwright", "launch", "new_page",
            "set_viewport_size", "goto", "wait_for_load_state", "evaluate",
            "set_viewport_size_2", "wait_for_timeout", "screenshot",
            "browser_close", "Image_open", "draw", "alpha_composite", "paste"}

\* C6: a call of create_gradient_image with markdown content that created the
\* temporary HTML file and then returned, or raised from writing the file,
\* from the browser steps, from decoding, drawing or pasting, has removed
\* the file by the time it ends.
C6_TempFileRemoved ==
    (Called /\ r_out.temp_created
        /\ (r_out.outcome = "returned" \/ r_out.error \in C6Steps))
    => ~r_out.temp_exists

\* The steps between the launch of the browser and its close.
C7Steps == {"new_page", "set_viewport_size", "goto", "wait_for_load_state",
            "evaluate", "set_viewport_size_2", "wait_for_timeout", "screenshot"}

Http == {"cc_http", "api_http"}

IsHashSixHex(s) == Len(s) = 7 /\ s[1] = "#" /\ IsSixHexDigits(Tail(s))

\* C4: an HTTP request whose background_color is not '#' and six hex digits
\* ends with status 400, without the palette having been opened and without
\* create_gradient_image having been called.
C4_BadBackgroundRejected ==
    \A p \in Procs :
        (s_pc[p] # "idle" /\ s_req[p].handler \in Http
            /\ "background_color" \in s_req[p].fields
            /\ ~IsHashSixHex(s_req[p].background_color))
        => /\ s_pc[p] = "done"
           /\ s_resp[p].status = "400"
           /\ ~s_resp[p].palette_opened
           /\ ~s_resp[p].called_render

\* The id the lookup is made with: int(id) for color_card_api.py's handler,
\* the value as given for the others.
RequestedId(req) ==
    IF req.handler = "cc_http" /\ req.id.kind = "str"
    THEN IntId(py_int(req.id.s, 10).v)
    ELSE req.id

Matches(req) ==
    {i \in 1..Len(colors_data) :
        RequestedId(req).kind = "int" /\ colors_data[i].id = RequestedId(req).n}

ReadErrors == {"Error reading color data", "Error reading color_zh.json"}

\* C5: a request that gets as far as the lookup with an id that no record
\* has ends not found (404, or the command line's message), naming that id,
\* with no record used, no path generated and create_gradient_image not
\* called; with an id that some records have, it uses the first of them.
C5_NoMatchIsNotFound ==
    \A p \in Procs :
        (s_pc[p] # "idle" /\ s_resp[p].palette_opened
            /\ s_resp[p].reason \notin ReadErrors)
        => IF Matches(s_req[p]) = {}
           THEN /\ s_pc[p] = "done"
                /\ s_resp[p].status \in {"404", "not_found"}
                /\ s_resp[p].named_id = RequestedId(s_req[p])
                /\ s_resp[p].item = 0
                /\ ~s_resp[p].uuid_drawn
                /\ ~s_resp[p].called_render
                /\ s_resp[p].render = NoRender
                /\ s_call[p] = NoArgs
           ELSE /\ \A i \in Matches(s_req[p]) : s_resp[p].item <= i
                /\ s_resp[p].item \in Matches(s_req[p])
                /\ s_call[p] # NoArgs
                     => s_call[p].colors = colors_data[s_resp[p].item].colors

\* An HTTP request for id 9, which no record has, answered 404.
C5_Witness ==
    /\ s_pc[1] = "done"
    /\ s_req[1].handler = "cc_http"
    /\ s_req[1].id = IntId(9)
    /\ s_resp[1].status = "404"
    /\ s_resp[1].named_id = IntId(9)
    /\ ~s_resp[1].called_render

\* Worker p is inside create_gradient_image with a path the entry point made.
AutoPath(p) == s_pc[p] = "rendering" /\ s_req[p].output = NoPath

\* C8: two requests for the same id that are inside create_gradient_image at
\* the same time, both with an auto-generated output path (whose file name
\* is to hold a uniqueness token), have different output paths.
C8_ConcurrentPathsDiffer ==
    \A p \in Procs : \A q \in Procs \ {p} :
        (AutoPath(p) /\ AutoPath(q)
            /\ RequestedId(s_req[p]) = RequestedId(s_req[q]))
        => s_call[p].output_path # s_call[q].output_path

\* C11: a command-line run of color_card_api.py whose --background-color is
\* not '#' and six hex digits, and that reaches the call of
\* create_gradient_image, has printed the warning and calls with #FFFFFF; and
\* when that call returns, it returns an image.
C11_CliBadBackgroundFallsBack ==
    \A p \in Procs :
        (s_req[p].handler = "cc_cli" /\ s_call[p] # NoArgs
            /\ ~IsHashSixHex(s_req[p].background_color))
        => /\ s_resp[p].warned
           /\ s_call[p].background_color = White
           /\ (s_pc[p] = "done" /\ s_resp[p].render.outcome = "returned")
                => s_resp[p].render.value = "bytes"

HttpStatuses == {"200", "400", "404", "500"}

SupportedModes == {"vertical", "horizontal", "diagonal", "bottom-right"}

\* The rejections a handler makes before it looks at the direction.
BeforeDirection == {"Missing required parameters", "Invalid id format",
                    "Invalid background_color format"}

\* C13: an HTTP request that gets as far as the direction test, in either
\* handler, is rejected there (400, nothing rendered) exactly when its
\* direction is none of vertical, horizontal, diagonal, bottom-right; with
\* one of the four, the gradient is drawn in that mode.
C13_FourDirectionsAccepted ==
    \A p \in Procs :
        (s_pc[p] # "idle" /\ s_req[p].handler \in Http
            /\ s_resp[p].reason \notin BeforeDirection
            /\ "direction" \in s_req[p].fields)
        => IF s_req[p].direction \in SupportedModes
           THEN /\ s_resp[p].reason # "Invalid direction"
                /\ s_resp[p].render.mode # ""
                     => s_resp[p].render.mode = s_req[p].direction
           ELSE /\ s_pc[p] = "done"
                /\ s_resp[p].status = "400"
                /\ ~s_resp[p].called_render

\* The call ended with an image: the bytes returned, or the file written.
ProducedImage ==
    r_out.outcome = "returned" /\ (r_out.value = "bytes" \/ r_out.saved # NoPath)

alpha_composite_channel(dst, src, alpha) ==
    (src * alpha + dst * (255 - alpha) + 127) \div 255

\* What drawing one layer does to a pixel that lies well inside the panel
\* and under no text: draw.ellipse / draw.rectangle with fill=background_rgb
\* replace it; the glow layer, whose blurred shape has its fill's alpha
\* there, is blended over it; the text leaves it alone.
paint(layer, pixel, background_rgb, border_color) ==
    CASE layer = "panel" -> background_rgb
      [] layer = "glow"  ->
            [i \in 1..3 |-> alpha_composite_channel(pixel[i], border_color[i],
                                                    border_color[4])]
      [] OTHER -> pixel

\* The pixel after the layers were drawn in their order.
RECURSIVE panel_pixel(_, _, _, _)
panel_pixel(layers, pixel, background_rgb, border_color) ==
    IF layers = <<>> THEN pixel
    ELSE panel_pixel(Tail(layers),
                     paint(Head(layers), pixel, background_rgb, border_color),
                     background_rgb, border_color)

BackgroundRgb == hex_to_rgb(r_args.background_color).rgb

\* C15: a completed render of either file, with a panel that has room for
\* its corners, drew the gradient, then the glow, then the panel, then the
\* text if any; and a pixel well inside the panel and under no text has the
\* panel's background colour.
C15_GlowUnderPanel ==
    (Called /\ r_out.outcome = "returned" /\ r_out.geometry
        /\ r_out.panel.rect_width > 2 * radius
        /\ r_out.panel.rect_height > 2 * radius)
    => /\ SubSeq(r_out.layers, 1, 3) = <<"gradient", "glow", "panel">>
       /\ panel_pixel(r_out.layers, <<0, 0, 0>>, BackgroundRgb,
                      r_out.border_color) = BackgroundRgb

\* C16: whenever a call of create_gradient_image, of either file, has
\* computed the glow rectangle, for the fixed or the measured panel height,
\* it is the panel rectangle grown by 10 on every side: glow_rect_x =
\* rect_x - 10, glow_rect_y = rect_y - 10, the width and the height 20 more,
\* and glow_radius = radius + 10.
C16_GlowIsPanelInflated ==
    (Called /\ r_out.glow # ZeroGlow)
    => /\ r_out.glow.glow_rect_x = r_out.panel.rect_x - 10
       /\ r_out.glow.glow_rect_y = r_out.panel.rect_y - 10
       /\ r_out.glow.glow_rect_width = r_out.panel.rect_width + 20
       /\ r_out.glow.glow_rect_height = r_out.panel.rect_height + 20
       /\ r_out.glow.glow_radius = radius + 10

\* A measured panel taller than the canvas by an odd number of pixels: the
\* floor divisions of rect_y and glow_rect_y both round, below zero.
C16_Witness ==
    /\ Called
    /\ r_out.measured
    /\ r_out.glow # ZeroGlow
    /\ r_args.height < r_out.panel.rect_height
    /\ (r_out.panel.rect_height - r_args.height) % 2 = 1

\* t1 <= t2 for fractions <<n, d>>.
FracLeq(t1, t2) == t1[1] * t2[2] <= t2[1] * t1[2]

\* C17: for a palette of two stops, every channel of the colour that
\* get_gradient_color of color_card_api.py returns lies between the two
\* stops' values of that channel, and it is monotone in t: for every later
\* t2 the channel is no smaller when the first stop's value is at most the
\* second's, and no larger otherwise.
C17_TwoStopMonotoneAndBounded ==
    (g_pc = "done" /\ Len(g_stops) = 2) =>
        \A i \in 1..3 :
            LET c0  == g_stops[1][i]
                c1  == g_stops[2][i]
                out == g_out.cc
            IN  /\ out.error = ""
                /\ out.rgb[i] >= (IF c0 <= c1 THEN c0 ELSE c1)
                /\ out.rgb[i] <= (IF c0 <= c1 THEN c1 ELSE c0)
                /\ \A t2 \in Fractions :
                     FracLeq(g_t, t2) =>
                        LET later == get_gradient_color(g_stops, t2,
                                        FloatOutcome(g_stops, t2)).rgb[i]
                        IN  IF c0 <= c1 THEN out.rgb[i] <= later
                                        ELSE out.rgb[i] >= later

\* The message of the first check of the stated order that a request fails,
\* "" when it fails none: required fields, integer id, background_color
\* format, direction.
FirstFailure(req) ==
    IF "id" \notin req.fields \/ "markdown" \notin req.fields
    THEN "Missing required parameters"
    ELSE IF req.id.kind = "str" /\ ~py_int(req.id.s, 10).ok
    THEN "Invalid id format"
    ELSE IF "background_color" \in req.fields /\ ~IsHashSixHex(req.background_color)
    THEN "Invalid background_color format"
    ELSE IF "direction" \in req.fields /\ req.direction \notin SupportedModes
    THEN "Invalid direction"
    ELSE ""

\* C18: an HTTP handler stops at the first check a request fails, in the
\* order required fields, integer id, background_color format, direction,
\* palette file, id lookup, render: a request that fails one of the first
\* four is answered 400 with that check's message (never 404, whatever its
\* id), without the palette file having been opened, an output path having
\* been generated or the renderer having been called.
C18_ChecksInOrder ==
    \A p \in Procs :
        (s_pc[p] # "idle" /\ s_req[p].handler \in Http
            /\ FirstFailure(s_req[p]) # "")
        => /\ s_pc[p] = "done"
           /\ s_resp[p].status = "400"
           /\ s_resp[p].reason = FirstFailure(s_req[p])
           /\ ~s_resp[p].palette_opened
           /\ ~s_resp[p].uuid_drawn
           /\ ~s_resp[p].called_render

\* The latest step drew a pixel of a fill over every pixel.
PixelDrawn ==
    g_px.drawn /\ g_px.direction \in {"diagonal", "bottom-right"}

\* What C19 says of a pixel's t and of the colour computed for it.
PixelInsideGradient ==
    LET w == g_px.width
        h == g_px.height
        N == Len(g_stops)
    IN  /\ g_t = pixel_t(g_px.x, g_px.y, w, h)
        /\ g_t[1] >= 0
        /\ g_t[1] <= g_t[2] - (w + h)     \* t <= 1 - (1/w + 1/h)/2
        /\ g_t[1] < g_t[2]
        /\ \A impl \in Impls :
             LET out == g_out[impl]
             IN  /\ out.error = ""
                 /\ (g_px.x = 0 /\ g_px.y = 0) => out.rgb = g_stops[1]
                 /\ out.branch # "clamp"
                 /\ \E i \in 0..(N - 2) : out.reads = {i, i + 1}

\* C19 as stated: in the diagonal and bottom-right modes every pixel's
\* t = (x/width + y/height)/2 satisfies 0 <= t <= 1 - (1/width + 1/height)/2
\* < 1, the top-left pixel gets exactly the first stop, the clamp branch of
\* get_gradient_color is not taken and the stop index used is below N - 1,
\* for a palette of any number N of stops.
C19_PixelParameterBelowOne_AnyPalette ==
    PixelDrawn => PixelInsideGradient

\* C19, amended: the same for a palette of at least two stops; with one
\* stop the range of t and the top-left colour hold as well, but the clamp
\* branch is the one taken.
C19_PixelParameterBelowOne ==
    /\ (PixelDrawn /\ Len(g_stops) >= 2) => PixelInsideGradient
    /\ (PixelDrawn /\ Len(g_stops) = 1) =>
          /\ g_t[1] >= 0 /\ g_t[1] <= g_t[2] - (g_px.width + g_px.height)
          /\ \A impl \in Impls :
                /\ g_out[impl].rgb = g_stops[1]
                /\ g_out[impl].branch = "clamp"

\* The bottom-right pixel, the largest t, of a canvas wider and taller than
\* one pixel, with three stops: the last segment is the one read.
C19_Witness ==
    /\ PixelDrawn /\ Len(g_stops) = 3
    /\ g_px.width > 1 /\ g_px.height > 1
    /\ g_px.x = g_px.width - 1 /\ g_px.y = g_px.height - 1
    /\ g_out.cc.branch = "segment" /\ g_out.cc.reads = {1, 2}

=============================================================================
